---- MODULE Spec2Model ----
(***************************************************************************)
(* h3pandas.H3Accessor (src/h3pandas/h3pandas.py): the dataframe accessor  *)
(* that lifts the per-cell functions of the h3 library to whole tables.    *)
(*                                                                         *)
(* A table is [geo, rows]: geo says whether it is a GeoDataFrame, rows is   *)
(* the sequence of its rows in row order, each row a record whose field    *)
(* "key" is the row key and whose other fields are the columns.            *)
(* The h3 library is a collaborator: it is modelled by a small hierarchic  *)
(* grid (two base cells, every cell split in two per resolution step) that *)
(* keeps the library's contract: which calls raise, what a parent, a ring, *)
(* a resolution is.                                                        *)
(***************************************************************************)
EXTENDS Integers, Sequences, FiniteSets, TLC

VARIABLES df, result, last, origin

vars == <<df, result, last, origin>>

\* ---------------------------------------------------------------- bounds
MaxRes == 2
MaxRows == 3
MaxK == 2

\* Python's None (an absent resolution / k / weights).
None == -1
\* pandas' missing value (NaN / None padding of a ragged frame).
NaN == -2

RECURSIVE Pow2(_)
Pow2(n) == IF n <= 0 THEN 1 ELSE 2 * Pow2(n - 1)

\* ------------------------------------------------- the h3 library (model)
\* A cell identifier is 1000 + 100 * resolution + position; resolution r
\* has 2 * 2^r cells, positions 0 .. 2 * 2^r - 1 on a line.  Every other
\* value (a row number, a malformed token) is no cell.
NumCells(r) == 2 * Pow2(r)
CellId(r, p) == 1000 + 100 * r + p
Res(h) == (h - 1000) \div 100
Pos(h) == (h - 1000) % 100

\* h3.h3_is_valid: never raises, False for anything that is no cell.
h3_h3_is_valid(h) ==
    /\ h >= 1000
    /\ Res(h) <= MaxRes
    /\ Pos(h) < NumCells(Res(h))

Ok(v) == [ok |-> TRUE, v |-> v]
Raise(exc) == [ok |-> FALSE, exc |-> exc]

\* The finest-resolution position of a point (lat picks the base cell).
FinePos(lat, lng) == lat * Pow2(MaxRes) + lng

\* h3.geo_to_h3(lat, lng, resolution)
h3_geo_to_h3(lat, lng, resolution) ==
    CellId(resolution, FinePos(lat, lng) \div Pow2(MaxRes - resolution))

\* h3.h3_to_geo(h): the (lat, lng) of the cell's centre.
h3_h3_to_geo(h) ==
    IF ~h3_h3_is_valid(h) THEN Raise("H3CellError")
    ELSE LET fine == Pos(h) * Pow2(MaxRes - Res(h))
         IN  Ok(<<fine \div Pow2(MaxRes), fine % Pow2(MaxRes)>>)

\* h3.h3_to_geo_boundary(h, geo_json=True): the ring of (lng, lat) corners.
h3_h3_to_geo_boundary(h) ==
    IF ~h3_h3_is_valid(h) THEN Raise("H3CellError")
    ELSE LET lo == Pos(h) * Pow2(MaxRes - Res(h))
             hi == lo + Pow2(MaxRes - Res(h)) - 1
         IN  Ok(<<<<lo % Pow2(MaxRes), lo \div Pow2(MaxRes)>>,
                  <<hi % Pow2(MaxRes), hi \div Pow2(MaxRes)>>>>)

\* h3.h3_get_resolution(h)
h3_h3_get_resolution(h) ==
    IF ~h3_h3_is_valid(h) THEN Raise("H3CellError") ELSE Ok(Res(h))

\* h3.h3_get_base_cell(h)
h3_h3_get_base_cell(h) ==
    IF ~h3_h3_is_valid(h) THEN Raise("H3CellError")
    ELSE Ok(Pos(h) \div Pow2(Res(h)))

\* h3.cell_area(h, unit): in the model a cell's area halves per resolution.
h3_cell_area(h, unit) ==
    IF ~h3_h3_is_valid(h) THEN Raise("H3CellError")
    ELSE LET km2 == Pow2(MaxRes - Res(h))
         IN  CASE unit = "km^2" -> Ok(km2)
               [] unit = "m^2" -> Ok(km2 * 1000000)
               [] unit = "rads^2" -> Ok(km2 * 3)
               [] OTHER -> Raise("H3ValueError")

\* The cells at grid distance exactly d of position p, nearest-first order.
RingAt(r, p, d) ==
    IF d = 0 THEN <<CellId(r, p)>>
    ELSE (IF p - d >= 0 THEN <<CellId(r, p - d)>> ELSE <<>>)
         \o (IF p + d < NumCells(r) THEN <<CellId(r, p + d)>> ELSE <<>>)

RECURSIVE Disk(_, _, _)
Disk(r, p, k) == IF k = 0 THEN RingAt(r, p, 0)
                 ELSE Disk(r, p, k - 1) \o RingAt(r, p, k)

\* h3.k_ring(h, k): the cells within distance k, the origin included; the
\* grid's edge cuts the disk short the way a pentagon does.
h3_k_ring(h, k) ==
    IF ~h3_h3_is_valid(h) THEN Raise("H3CellError")
    ELSE IF k < 0 THEN Raise("H3DistanceError")
    ELSE Ok(Disk(Res(h), Pos(h), k))

\* h3.hex_ring(h, k): the hollow ring at distance k; the library raises when
\* the ring cannot be formed (a pentagon; here the grid's edge).
h3_hex_ring(h, k) ==
    IF ~h3_h3_is_valid(h) THEN Raise("H3CellError")
    ELSE IF k < 0 THEN Raise("H3DistanceError")
    ELSE IF Pos(h) - k < 0 \/ Pos(h) + k >= NumCells(Res(h))
         THEN Raise("H3ValueError")
    ELSE Ok(RingAt(Res(h), Pos(h), k))

\* h3.h3_to_parent(h, res): res None means one resolution coarser; a
\* resolution finer than the cell's, or below 0, raises.
h3_h3_to_parent(h, res) ==
    IF ~h3_h3_is_valid(h) THEN Raise("H3CellError")
    ELSE LET r == IF res = None THEN Res(h) - 1 ELSE res
         IN  IF r > Res(h) \/ r < 0 THEN Raise("H3ResolutionError")
             ELSE Ok(CellId(r, Pos(h) \div Pow2(Res(h) - r)))

\* h3.h3_to_center_child(h, res): res None means one resolution finer; a
\* resolution coarser than the cell's, or past the finest, raises.
h3_h3_to_center_child(h, res) ==
    IF ~h3_h3_is_valid(h) THEN Raise("H3CellError")
    ELSE LET r == IF res = None THEN Res(h) + 1 ELSE res
         IN  IF r < Res(h) \/ r > MaxRes THEN Raise("H3ResolutionError")
             ELSE Ok(CellId(r, Pos(h) * Pow2(r - Res(h))))

\* h3pandas.util.shapely.polyfill(geometry, resolution, True): the cells of
\* the resolution whose centre lies in the polygon, in grid order.  A polygon
\* is the ring of its two (lng, lat) corners, as h3_to_geo_boundary gives it.
CellsAtFrom(r, p) ==
    [i \in 1..(NumCells(r) - p) |-> CellId(r, p + i - 1)]

util_polyfill(geometry, resolution) ==
    LET lo == FinePos(geometry.ring[1][2], geometry.ring[1][1])
        hi == FinePos(geometry.ring[2][2], geometry.ring[2][1])
        Inside(c) == LET centre == Pos(c) * Pow2(MaxRes - resolution)
                     IN  lo <= centre /\ centre <= hi
    IN  SelectSeq(CellsAtFrom(resolution, 0), Inside)

\* -------------------------------------------------- the error adapter
\* h3pandas.util.decorator.catch_invalid_h3_address: the wrapped function's
\* value, or its invalid-identifier error raised again; any other error
\* passes through untouched.
catch_invalid_h3_address(out) ==
    IF out.ok THEN out
    ELSE IF out.exc = "H3CellError" THEN Raise("H3CellError")
    ELSE out

\* A per-row function: the library function and the argument bound to it by
\* wrapped_partial.
Func(name, arg) == [name |-> name, arg |-> arg]

Units == <<"km^2", "m^2", "rads^2">>

\* func(h3address) for the function objects the accessor builds.
Call(func, h) ==
    CASE func.name = "h3_to_geo" -> h3_h3_to_geo(h)
      [] func.name = "h3_to_geo_boundary" -> h3_h3_to_geo_boundary(h)
      [] func.name = "h3_get_resolution" -> h3_h3_get_resolution(h)
      [] func.name = "h3_get_base_cell" -> h3_h3_get_base_cell(h)
      [] func.name = "h3_is_valid" -> Ok(h3_h3_is_valid(h))
      [] func.name = "k_ring" -> h3_k_ring(h, func.arg)
      [] func.name = "hex_ring" -> h3_hex_ring(h, func.arg)
      [] func.name = "h3_to_parent" -> h3_h3_to_parent(h, func.arg)
      [] func.name = "h3_to_center_child" -> h3_h3_to_center_child(h, func.arg)
      [] func.name = "cell_area" -> h3_cell_area(h, Units[func.arg])

\* The processors the accessor passes: identity, list,
\* Point(reversed(x)) and Polygon(x).
Process(processor, x) ==
    CASE processor = "identity" -> x
      [] processor = "list" -> x
      [] processor = "Point" -> [type |-> "Point", x |-> x[2], y |-> x[1]]
      [] processor = "Polygon" -> [type |-> "Polygon", ring |-> x]

\* ------------------------------------------------------------- tables
Table(geo, rows) == [geo |-> geo, rows |-> rows]

Columns(row) == DOMAIN row \ {"key"}

SetCol(row, name, v) ==
    [c \in DOMAIN row \cup {name} |-> IF c = name THEN v ELSE row[c]]

DropCols(row, names) == [c \in DOMAIN row \ names |-> row[c]]

Index(t) == [i \in 1..Len(t.rows) |-> t.rows[i].key]

\* DataFrame.assign(**{name: values}): a new table, the column added (or
\* replaced) positionally.
assign(t, name, values) ==
    Table(t.geo, [i \in 1..Len(t.rows) |-> SetCol(t.rows[i], name, values[i])])

\* The finalizers the accessor passes: identity and
\* gpd.GeoDataFrame(x, crs='epsg:4326').
Finalize(finalizer, t) ==
    IF finalizer = "GeoDataFrame" THEN Table(TRUE, t.rows) ELSE t

\* What a call leaves behind: the table the accessor wraps after the call
\* (self_df) and the call's outcome, a returned table or a raised error.
\* alias says whether the returned object is the wrapped table itself.
Returned(self_df, t) ==
    [self_df |-> self_df,
     out |-> [status |-> "returned", table |-> t, alias |-> FALSE]]

Raised(self_df, exc, key) ==
    [self_df |-> self_df,
     out |-> [status |-> "raised", exc |-> exc, key |-> key]]

\* The least position whose outcome is an error (0 when there is none): a
\* comprehension over the index stops at the first call that raises.
FirstRaise(outs) ==
    IF \E i \in 1..Len(outs) : ~outs[i].ok
    THEN CHOOSE i \in 1..Len(outs) :
            /\ ~outs[i].ok
            /\ \A j \in 1..(i - 1) : outs[j].ok
    ELSE 0

RECURSIVE Flatten(_)
Flatten(seqs) ==
    IF seqs = <<>> THEN <<>> ELSE Head(seqs) \o Flatten(Tail(seqs))

\* _apply_index_assign as it would be if it set the column on the wrapped
\* table itself (self._df[column_name] = result) and returned that table.
_apply_index_assign_inplace(t, func, column_name, processor, finalizer) ==
    LET outs == [i \in 1..Len(t.rows) |->
                    catch_invalid_h3_address(Call(func, t.rows[i].key))]
        bad == FirstRaise(outs)
        res == [i \in 1..Len(t.rows) |-> Process(processor, outs[i].v)]
        new == Finalize(finalizer, assign(t, column_name, res))
    IN  IF bad # 0
        THEN Raised(t, outs[bad].exc, t.rows[bad].key)
        ELSE [self_df |-> new,
              out |-> [status |-> "returned", table |-> new, alias |-> TRUE]]

\* _apply_index_assign as it would be if an invalid key's row were skipped
\* instead of ending the call.
_apply_index_assign_skipping(t, func, column_name, processor, finalizer) ==
    LET good == SelectSeq(t.rows,
                    LAMBDA row : catch_invalid_h3_address(Call(func, row.key)).ok)
        res == [i \in 1..Len(good) |->
                   Process(processor,
                           catch_invalid_h3_address(Call(func, good[i].key)).v)]
    IN  Returned(t, Finalize(finalizer,
                             assign(Table(t.geo, good), column_name, res)))

\* H3Accessor._apply_index_assign
_apply_index_assign(t, func, column_name, processor, finalizer) ==
    LET outs == [i \in 1..Len(t.rows) |->
                    catch_invalid_h3_address(Call(func, t.rows[i].key))]
        bad == FirstRaise(outs)
        res == [i \in 1..Len(t.rows) |-> Process(processor, outs[i].v)]
    IN  IF bad # 0
        THEN Raised(t, outs[bad].exc, t.rows[bad].key)
        ELSE Returned(t, Finalize(finalizer, assign(t, column_name, res)))

\* join as it would be as an inner join: a row without a match is dropped.
join_inner(t, right, column_name) ==
    LET Expand(row) ==
            LET m == SelectSeq(right, LAMBDA e : e.key = row.key)
            IN  [j \in 1..Len(m) |-> SetCol(row, column_name, m[j].v)]
    IN  Table(t.geo, Flatten([i \in 1..Len(t.rows) |-> Expand(t.rows[i])]))

\* DataFrame.join(other) on the index, other holding one column: a left
\* join; every left row, in order, once per right row of the same key (in
\* the right's order), or once with a missing value when there is none.
join(t, right, column_name) ==
    LET Expand(row) ==
            LET m == SelectSeq(right, LAMBDA e : e.key = row.key)
            IN  IF m = <<>> THEN <<SetCol(row, column_name, NaN)>>
                ELSE [j \in 1..Len(m) |-> SetCol(row, column_name, m[j].v)]
    IN  Table(t.geo, Flatten([i \in 1..Len(t.rows) |-> Expand(t.rows[i])]))

\* stack as it would be with reset_index dropping level 0, the row key,
\* instead of level 1, the place in the list.
stack_level0(keys, lists) ==
    Flatten([i \in 1..Len(keys) |->
                [j \in 1..Len(lists[i]) |-> [key |-> j - 1, v |-> lists[i][j]]]])

\* frame.stack().to_frame(name).reset_index(level=1, drop=True) of a frame
\* given by its row keys and its rows' lists: one entry per element, row by
\* row, the padding of the shorter rows dropped.
stack(keys, lists) ==
    Flatten([i \in 1..Len(keys) |->
                [j \in 1..Len(lists[i]) |-> [key |-> keys[i], v |-> lists[i][j]]]])

\* The keys of a dict built over the index: each key once, at its first place.
DictKeys(index) ==
    SelectSeq([i \in 1..Len(index) |->
                  IF \E j \in 1..(i - 1) : index[j] = index[i]
                  THEN NaN ELSE index[i]],
              LAMBDA k : k # NaN)

\* H3Accessor.__apply_index_explode
__apply_index_explode(t, func, column_name, processor, finalizer) ==
    LET outs == [i \in 1..Len(t.rows) |->
                    catch_invalid_h3_address(Call(func, t.rows[i].key))]
        bad == FirstRaise(outs)
        keys == DictKeys(Index(t))
        lists == [i \in 1..Len(keys) |->
                    Process(processor,
                            catch_invalid_h3_address(Call(func, keys[i])).v)]
    IN  IF bad # 0
        THEN Raised(t, outs[bad].exc, t.rows[bad].key)
        ELSE Returned(t, Finalize(finalizer,
                                  join(t, stack(keys, lists), column_name)))

\* H3Accessor._format_resolution: f'h3_{str(resolution).zfill(2)}'
_format_resolution(resolution) ==
    IF resolution = None THEN "h3_None"
    ELSE <<"h3_00", "h3_01", "h3_02", "h3_03", "h3_04", "h3_05", "h3_06",
           "h3_07", "h3_08", "h3_09", "h3_10", "h3_11", "h3_12", "h3_13",
           "h3_14", "h3_15">>[resolution + 1]

\* ------------------------------------------------------- pandas pieces
\* DataFrame.set_index(colname): the column becomes the row key.
set_index(t, colname) ==
    Table(t.geo, [i \in 1..Len(t.rows) |->
                     SetCol(DropCols(t.rows[i], {"key", colname}),
                            "key", t.rows[i][colname])])

\* DataFrame.drop(columns=names, errors='ignore')
drop(t, names) ==
    Table(t.geo, [i \in 1..Len(t.rows) |-> DropCols(t.rows[i], names \ {"key"})])

RECURSIVE SortedSeq(_)
SortedSeq(S) ==
    IF S = {} THEN <<>>
    ELSE LET m == CHOOSE x \in S : \A y \in S : x <= y
         IN  <<m>> \o SortedSeq(S \ {m})

RECURSIVE SumSeq(_)
SumSeq(s) == IF s = <<>> THEN 0 ELSE Head(s) + SumSeq(Tail(s))

RECURSIVE MaxSeq(_)
MaxSeq(s) ==
    IF Len(s) = 1 THEN s[1]
    ELSE LET m == MaxSeq(Tail(s)) IN IF Head(s) >= m THEN Head(s) ELSE m

\* One group's reduction of one column: the named reductions of agg.
Reduce(operation, s) ==
    CASE operation = "sum" -> SumSeq(s)
      [] operation = "max" -> MaxSeq(s)
      [] operation = "first" -> s[1]
      [] operation = "count" -> Len(s)

\* DataFrame.groupby(by)[cols].agg(operation): one row per distinct value of
\* the by column, keyed by it, the groups in sorted key order; each column
\* reduced over the group's rows in row order.  A plain DataFrame.
groupby_agg(t, by, cols, operation) ==
    LET gkeys == SortedSeq({t.rows[i][by] : i \in 1..Len(t.rows)})
        Group(g) == SelectSeq(t.rows, LAMBDA row : row[by] = g)
        Agg(g) == [c \in cols \cup {"key"} |->
                      IF c = "key" THEN g
                      ELSE LET grp == Group(g)
                           IN  Reduce(operation,
                                      [i \in 1..Len(grp) |-> grp[i][c]])]
    IN  Table(FALSE, [i \in 1..Len(gkeys) |-> Agg(gkeys[i])])

\* The columns every row of the table has.
TableColumns(t) ==
    IF t.rows = <<>> THEN {} ELSE Columns(t.rows[1])

IsPoint(g) == "type" \in DOMAIN g /\ g.type = "Point"
IsPolygon(g) == "type" \in DOMAIN g /\ g.type = "Polygon"

\* ------------------------------------------------- the public methods
\* H3Accessor.geo_to_h3
geo_to_h3(t, resolution, lat_col, lng_col, set_index_) ==
    LET n == Len(t.rows)
        colname == _format_resolution(resolution)
        Lat(row) == IF t.geo THEN row.geometry.y ELSE row[lat_col]
        Lng(row) == IF t.geo THEN row.geometry.x ELSE row[lng_col]
        h3addresses == [i \in 1..n |->
                           h3_geo_to_h3(Lat(t.rows[i]), Lng(t.rows[i]), resolution)]
        new == assign(t, colname, h3addresses)
    IN  IF n > 0 /\ t.geo /\ "geometry" \notin TableColumns(t)
        THEN Raised(t, "AttributeError", None)
        ELSE IF n > 0 /\ t.geo /\ ~IsPoint(t.rows[1].geometry)
        THEN Raised(t, "ValueError", None)
        ELSE IF n > 0 /\ ~t.geo /\ ~({lat_col, lng_col} \subseteq TableColumns(t))
        THEN Raised(t, "KeyError", t.rows[1].key)
        ELSE Returned(t, IF set_index_ THEN set_index(new, colname) ELSE new)

\* H3Accessor.h3_to_geo
h3_to_geo(t) ==
    _apply_index_assign(t, Func("h3_to_geo", None), "geometry", "Point",
                        "GeoDataFrame")

\* H3Accessor.h3_to_geo_boundary
h3_to_geo_boundary(t) ==
    _apply_index_assign(t, Func("h3_to_geo_boundary", None), "geometry",
                        "Polygon", "GeoDataFrame")

\* H3Accessor.h3_get_resolution
h3_get_resolution(t) ==
    _apply_index_assign(t, Func("h3_get_resolution", None), "h3_resolution",
                        "identity", "identity")

\* H3Accessor.h3_get_base_cell
h3_get_base_cell(t) ==
    _apply_index_assign(t, Func("h3_get_base_cell", None), "h3_base_cell",
                        "identity", "identity")

\* h3_is_valid as it would be with a function that checks its cell.
h3_is_valid_checking(t) ==
    _apply_index_assign(t, Func("h3_get_resolution", None), "h3_is_valid",
                        "identity", "identity")

\* H3Accessor.h3_is_valid
h3_is_valid(t) ==
    _apply_index_assign(t, Func("h3_is_valid", None), "h3_is_valid",
                        "identity", "identity")

\* H3Accessor.k_ring
k_ring(t, k, explode) ==
    IF explode
    THEN __apply_index_explode(t, Func("k_ring", k), "h3_k_ring", "list", "identity")
    ELSE _apply_index_assign(t, Func("k_ring", k), "h3_k_ring", "list", "identity")

\* H3Accessor.hex_ring
hex_ring(t, k, explode) ==
    IF explode
    THEN __apply_index_explode(t, Func("hex_ring", k), "h3_hex_ring", "list", "identity")
    ELSE _apply_index_assign(t, Func("hex_ring", k), "h3_hex_ring", "list", "identity")

\* Python's truth value of a resolution: None and 0 are false.
Truthy(resolution) == resolution # None /\ resolution # 0

\* h3_to_parent as it would be if it ignored the resolution it is given.
h3_to_parent_direct(t, resolution) ==
    LET column == IF Truthy(resolution) THEN _format_resolution(resolution)
                  ELSE "h3_parent"
    IN  _apply_index_assign(t, Func("h3_to_parent", None), column,
                            "identity", "identity")

\* h3_to_parent as it would be with the test "resolution is not None".
h3_to_parent_not_none(t, resolution) ==
    LET column == IF resolution # None THEN _format_resolution(resolution)
                  ELSE "h3_parent"
    IN  _apply_index_assign(t, Func("h3_to_parent", resolution), column,
                            "identity", "identity")

\* H3Accessor.h3_to_parent
h3_to_parent(t, resolution) ==
    LET column == IF Truthy(resolution) THEN _format_resolution(resolution)
                  ELSE "h3_parent"
    IN  _apply_index_assign(t, Func("h3_to_parent", resolution), column,
                            "identity", "identity")

\* H3Accessor.h3_to_center_child
h3_to_center_child(t, resolution) ==
    _apply_index_assign(t, Func("h3_to_center_child", resolution),
                        "h3_center_child", "identity", "identity")

\* H3Accessor.cell_area (unit given by its place in Units)
cell_area(t, unit) ==
    _apply_index_assign(t, Func("cell_area", unit), "h3_cell_area",
                        "identity", "identity")

\* The outcome of a call made on another accessor, as this call's own.
Pass(self_df, r) == [self_df |-> self_df, out |-> r.out]

\* H3Accessor.polyfill.  apply(..., result_type='expand') builds a frame of
\* the rows' lists and raises when they differ in length; the frame is then
\* stacked and joined back on the row key.
polyfill(t, resolution, explode) ==
    LET n == Len(t.rows)
        lists == [i \in 1..n |-> util_polyfill(t.rows[i].geometry, resolution)]
    IN  IF n > 0 /\ "geometry" \notin TableColumns(t)
        THEN Raised(t, "AttributeError", t.rows[1].key)
        ELSE IF n > 0 /\ \E i \in 1..n : ~IsPolygon(t.rows[i].geometry)
        THEN Raised(t, "TypeError", t.rows[1].key)
        ELSE IF ~explode
        THEN Returned(t, assign(t, "h3_polyfill", lists))
        ELSE IF \E i, j \in 1..n : Len(lists[i]) # Len(lists[j])
        THEN Raised(t, "ValueError", None)
        ELSE Returned(t, join(t, stack(Index(t), lists), "h3_polyfill"))

\* geo_to_h3_aggregate as it would be without the drop of the coordinate
\* and geometry columns.
geo_to_h3_aggregate_nodrop(t, resolution, operation, lat_col, lng_col, return_geometry) ==
    LET g == geo_to_h3(t, resolution, lat_col, lng_col, FALSE)
        colname == _format_resolution(resolution)
        grouped == groupby_agg(g.out.table, colname,
                               (TableColumns(g.out.table) \ {colname})
                                   \cap {"val", "lat", "lng"}, operation)
    IN  IF g.out.status = "raised" THEN g
        ELSE IF return_geometry
        THEN Pass(g.self_df, h3_to_geo_boundary(grouped))
        ELSE Returned(g.self_df, grouped)

\* H3Accessor.geo_to_h3_aggregate
geo_to_h3_aggregate(t, resolution, operation, lat_col, lng_col, return_geometry) ==
    LET g == geo_to_h3(t, resolution, lat_col, lng_col, FALSE)
        colname == _format_resolution(resolution)
        dropped == drop(g.out.table, {lat_col, lng_col, "geometry"})
        grouped == groupby_agg(dropped, colname,
                               TableColumns(dropped) \ {colname}, operation)
    IN  IF g.out.status = "raised" THEN g
        ELSE IF return_geometry
        THEN Pass(g.self_df, h3_to_geo_boundary(grouped))
        ELSE Returned(g.self_df, grouped)

\* h3_to_parent_aggregate as it would be if it grouped by the row key
\* instead of the parent column.
h3_to_parent_aggregate_by_key(t, resolution, operation, return_geometry) ==
    LET outs == [i \in 1..Len(t.rows) |->
                    catch_invalid_h3_address(
                        h3_h3_to_parent(t.rows[i].key, resolution))]
        bad == FirstRaise(outs)
        grouped == groupby_agg(t, "key", TableColumns(t) \ {"geometry"}, operation)
    IN  IF bad # 0
        THEN Raised(t, outs[bad].exc, t.rows[bad].key)
        ELSE IF return_geometry
        THEN Pass(t, h3_to_geo_boundary(grouped))
        ELSE Returned(t, grouped)

\* H3Accessor.h3_to_parent_aggregate
h3_to_parent_aggregate(t, resolution, operation, return_geometry) ==
    LET outs == [i \in 1..Len(t.rows) |->
                    catch_invalid_h3_address(
                        h3_h3_to_parent(t.rows[i].key, resolution))]
        bad == FirstRaise(outs)
        h3_parent_column == _format_resolution(resolution)
        parent_h3addresses == [i \in 1..Len(t.rows) |-> outs[i].v]
        grouped == groupby_agg(assign(t, h3_parent_column, parent_h3addresses),
                               h3_parent_column,
                               TableColumns(t) \ {"geometry"}, operation)
    IN  IF bad # 0
        THEN Raised(t, outs[bad].exc, t.rows[bad].key)
        ELSE IF return_geometry
        THEN Pass(t, h3_to_geo_boundary(grouped))
        ELSE Returned(t, grouped)

\* The columns select_dtypes(include=['number']) keeps.
NumericColumns(t) == TableColumns(t) \cap {"val", "lat", "lng"}

\* H3Accessor._multiply_numeric: a number times the weight num / den is kept
\* as the exact fraction.
_multiply_numeric(t, value) ==
    Table(t.geo,
          [i \in 1..Len(t.rows) |->
              [c \in DOMAIN t.rows[i] |->
                  IF c \in NumericColumns(t)
                  THEN [num |-> t.rows[i][c] * value.num, den |-> value.den]
                  ELSE t.rows[i][c]]])

\* entries.join(df): every entry of the stacked frame, in order, once per
\* row of df with the entry's key, carrying that row's columns.
join_entries(entries, t, column_name) ==
    LET Expand(e) ==
            LET m == SelectSeq(t.rows, LAMBDA row : row.key = e.key)
            IN  [j \in 1..Len(m) |-> SetCol(m[j], column_name, e.v)]
    IN  Table(t.geo, Flatten([i \in 1..Len(entries) |-> Expand(entries[i])]))

\* groupby(by).sum() of fractions of one denominator.
groupby_sum_fractions(t, by, den) ==
    LET gkeys == SortedSeq({t.rows[i][by] : i \in 1..Len(t.rows)})
        Group(g) == SelectSeq(t.rows, LAMBDA row : row[by] = g)
        Agg(g) == [c \in NumericColumns(t) \cup {"key"} |->
                      IF c = "key" THEN g
                      ELSE LET grp == Group(g)
                           IN  [num |-> SumSeq([i \in 1..Len(grp) |-> grp[i][c].num]),
                                den |-> den]]
    IN  Table(FALSE, [i \in 1..Len(gkeys) |-> Agg(gkeys[i])])

\* DataFrame.divide(d): every number over d, kept as the exact fraction.
divide(t, d) ==
    Table(t.geo,
          [i \in 1..Len(t.rows) |->
              [c \in DOMAIN t.rows[i] |->
                  IF c = "key" THEN t.rows[i][c]
                  ELSE [num |-> t.rows[i][c], den |-> d]]])

\* The weights k_ring_smoothing is called with (None: not given).
Weights == <<<<1>>, <<1, 1>>, <<2, 1>>>>

\* weighted_hex_ring of k_ring_smoothing, for every ring 0 .. len - 1, and
\* pd.concat of them; the library's errors are not adapted here.
RECURSIVE weighted_hex_rings(_, _, _, _)
weighted_hex_rings(t, weights, den, i) ==
    IF i > Len(weights) THEN [ok |-> TRUE, rows |-> <<>>]
    ELSE LET outs == [j \in 1..Len(t.rows) |-> h3_hex_ring(t.rows[j].key, i - 1)]
             bad == FirstRaise(outs)
             lists == [j \in 1..Len(t.rows) |-> outs[j].v]
             ring == _multiply_numeric(
                         join_entries(stack(Index(t), lists), t, "h3_hex_ring"),
                         [num |-> weights[i], den |-> den])
             rest == weighted_hex_rings(t, weights, den, i + 1)
         IN  IF bad # 0
             THEN [ok |-> FALSE, exc |-> outs[bad].exc, key |-> t.rows[bad].key]
             ELSE IF ~rest.ok THEN rest
             ELSE [ok |-> TRUE, rows |-> ring.rows \o rest.rows]

\* H3Accessor.k_ring_smoothing (weights by its place in Weights)
k_ring_smoothing(t, k, weights, return_geometry) ==
    IF (weights = None /\ k = None) \/ (weights # None /\ k # None)
    THEN Raised(t, "ValueError", None)
    ELSE IF weights = None
    THEN LET outs == [j \in 1..Len(t.rows) |-> h3_k_ring(t.rows[j].key, k)]
             bad == FirstRaise(outs)
             lists == [j \in 1..Len(t.rows) |-> outs[j].v]
             joined == join_entries(stack(Index(t), lists), t, "h3_k_ring")
             summed == groupby_agg(joined, "h3_k_ring", NumericColumns(joined), "sum")
         IN  IF bad # 0 THEN Raised(t, outs[bad].exc, t.rows[bad].key)
             ELSE Returned(t, divide(summed, 1 + 3 * k * (k + 1)))
    ELSE LET w == Weights[weights]
             multipliers == [i \in 1..Len(w) |-> IF i = 1 THEN 1 ELSE (i - 1) * 6]
             den == SumSeq([i \in 1..Len(w) |-> w[i] * multipliers[i]])
             rings == weighted_hex_rings(t, w, den, 1)
             summed == groupby_sum_fractions(Table(t.geo, rings.rows),
                                             "h3_hex_ring", den)
         IN  IF ~rings.ok THEN Raised(t, rings.exc, rings.key)
             ELSE IF return_geometry THEN Pass(t, h3_to_geo_boundary(summed))
             ELSE Returned(t, summed)

\* H3Accessor.polyfill_resample
polyfill_resample(t, resolution, return_geometry) ==
    LET p == polyfill(t, resolution, FALSE)
        lists == [i \in 1..Len(t.rows) |-> p.out.table.rows[i].h3_polyfill]
        joined == join_entries(stack(Index(t), lists), t, "h3_polyfill")
        reset == Table(joined.geo,
                       [i \in 1..Len(joined.rows) |->
                           SetCol(joined.rows[i], "index", joined.rows[i].key)])
        res == set_index(reset, "h3_polyfill")
    IN  IF p.out.status = "raised" THEN p
        ELSE IF Len(t.rows) = 0 THEN Raised(t, "AttributeError", None)
        ELSE IF return_geometry THEN Pass(t, h3_to_geo_boundary(res))
        ELSE Returned(t, res)

\* ------------------------------------------------------ the state machine
\* The tables an accessor is built on.  The val column tells the rows apart.
Val(i) == Pow2(i - 1)

SeqsUpTo(S, n) == UNION {[1..m -> S] : m \in 0..n}

\* Row keys of a cell-keyed table: cells of three resolutions (1200 and 1201
\* share a parent), and two malformed tokens.
CellKeyPool == {1200, 1201, 1101, 1001, 998, 999}

CellTable(ks) ==
    Table(FALSE, [i \in 1..Len(ks) |-> [key |-> ks[i], val |-> Val(i)]])

\* (lat, lng) of the points of a coordinate table, keyed by a RangeIndex.
PointPool == {<<0, 0>>, <<0, 1>>, <<1, 0>>}

PointTable(ps) ==
    Table(FALSE, [i \in 1..Len(ps) |->
                     [key |-> i - 1, lat |-> ps[i][1], lng |-> ps[i][2],
                      val |-> Val(i)]])

GeoPointTable(ps) ==
    Table(TRUE, [i \in 1..Len(ps) |->
                    [key |-> i - 1,
                     geometry |-> [type |-> "Point", x |-> ps[i][2], y |-> ps[i][1]],
                     val |-> Val(i)]])

\* Polygons by their (lng, lat) corners, and the row keys of polygon tables
\* (two rows may share a key).
PolygonPool == {<<<<1, 0>>, <<1, 0>>>>, <<<<0, 0>>, <<0, 0>>>>, <<<<0, 0>>, <<2, 0>>>>}

PolyKeyPool == {7, 8}

PolyTable(ps) ==
    Table(TRUE, [i \in 1..Len(ps) |->
                    [key |-> ps[i][1],
                     geometry |-> [type |-> "Polygon", ring |-> ps[i][2]],
                     val |-> Val(i)]])

NoCall == [op |-> "__init__", n |-> None, flag |-> FALSE, operation |-> "none"]

CallOf(op, n, flag, operation) ==
    [op |-> op, n |-> n, flag |-> flag, operation |-> operation]

\* H3Accessor.__init__ on a fresh table: nothing called yet.
Init ==
    /\ \/ \E ks \in SeqsUpTo(CellKeyPool, MaxRows) : df = CellTable(ks)
       \/ \E ps \in SeqsUpTo(PointPool, MaxRows) : df = PointTable(ps)
       \/ \E ps \in SeqsUpTo(PointPool, MaxRows) : df = GeoPointTable(ps)
       \/ \E ps \in SeqsUpTo(PolyKeyPool \X PolygonPool, MaxRows) : df = PolyTable(ps)
    /\ result = [status |-> "none"]
    /\ last = NoCall
    /\ origin = NoCall

\* A call: the accessor's table after it, its outcome, and what was called.
\* Calls are synchronous: one is made only when the previous one is over.
Do(r, call) ==
    /\ result.status = "none"
    /\ df' = r.self_df
    /\ result' = r.out
    /\ last' = call
    /\ UNCHANGED origin

Resolutions == 0..MaxRes
Operations == {"sum", "first"}

Call_geo_to_h3 ==
    \E resolution \in Resolutions, set_index_ \in BOOLEAN :
        Do(geo_to_h3(df, resolution, "lat", "lng", set_index_),
           CallOf("geo_to_h3", resolution, set_index_, "none"))

Call_h3_to_geo ==
    Do(h3_to_geo(df), CallOf("h3_to_geo", None, FALSE, "none"))

Call_h3_to_geo_boundary ==
    Do(h3_to_geo_boundary(df), CallOf("h3_to_geo_boundary", None, FALSE, "none"))

Call_h3_get_resolution ==
    Do(h3_get_resolution(df), CallOf("h3_get_resolution", None, FALSE, "none"))

Call_h3_get_base_cell ==
    Do(h3_get_base_cell(df), CallOf("h3_get_base_cell", None, FALSE, "none"))

Call_h3_is_valid ==
    Do(h3_is_valid(df), CallOf("h3_is_valid", None, FALSE, "none"))

Call_k_ring ==
    \E k \in 0..MaxK, explode \in BOOLEAN :
        Do(k_ring(df, k, explode), CallOf("k_ring", k, explode, "none"))

Call_hex_ring ==
    \E k \in 0..MaxK, explode \in BOOLEAN :
        Do(hex_ring(df, k, explode), CallOf("hex_ring", k, explode, "none"))

Call_h3_to_parent ==
    \E resolution \in Resolutions \cup {None} :
        Do(h3_to_parent(df, resolution),
           CallOf("h3_to_parent", resolution, FALSE, "none"))

Call_h3_to_center_child ==
    \E resolution \in Resolutions \cup {None} :
        Do(h3_to_center_child(df, resolution),
           CallOf("h3_to_center_child", resolution, FALSE, "none"))

Call_polyfill ==
    \E resolution \in Resolutions, explode \in BOOLEAN :
        Do(polyfill(df, resolution, explode),
           CallOf("polyfill", resolution, explode, "none"))

Call_cell_area ==
    \E unit \in 1..Len(Units) :
        Do(cell_area(df, unit), CallOf("cell_area", unit, FALSE, "none"))

Call_geo_to_h3_aggregate ==
    \E resolution \in Resolutions, operation \in Operations,
       return_geometry \in BOOLEAN :
        Do(geo_to_h3_aggregate(df, resolution, operation, "lat", "lng",
                               return_geometry),
           CallOf("geo_to_h3_aggregate", resolution, return_geometry, operation))

Call_h3_to_parent_aggregate ==
    \E resolution \in Resolutions, operation \in Operations,
       return_geometry \in BOOLEAN :
        Do(h3_to_parent_aggregate(df, resolution, operation, return_geometry),
           CallOf("h3_to_parent_aggregate", resolution, return_geometry, operation))

Call_k_ring_smoothing ==
    \E k \in (0..MaxK) \cup {None}, weights \in (1..Len(Weights)) \cup {None},
       return_geometry \in BOOLEAN :
        Do(k_ring_smoothing(df, k, weights, return_geometry),
           [op |-> "k_ring_smoothing", n |-> k, flag |-> return_geometry,
            operation |-> "none", weights |-> weights])

Call_polyfill_resample ==
    \E resolution \in Resolutions, return_geometry \in BOOLEAN :
        Do(polyfill_resample(df, resolution, return_geometry),
           CallOf("polyfill_resample", resolution, return_geometry, "none"))

\* The caller takes the outcome of the call; the accessor is as before.
Return ==
    /\ result.status # "none"
    /\ result' = [status |-> "none"]
    /\ last' = NoCall
    /\ UNCHANGED <<df, origin>>

\* result.h3: an accessor is built on the table a call returned
\* (H3Accessor.__init__); origin remembers the call the table came from.
Wrap ==
    /\ result.status = "returned"
    /\ origin = NoCall
    /\ df' = result.table
    /\ origin' = last
    /\ result' = [status |-> "none"]
    /\ last' = NoCall

Next ==
    \/ Call_geo_to_h3
    \/ Call_h3_to_geo
    \/ Call_h3_to_geo_boundary
    \/ Call_h3_get_resolution
    \/ Call_h3_get_base_cell
    \/ Call_h3_is_valid
    \/ Call_k_ring
    \/ Call_hex_ring
    \/ Call_h3_to_parent
    \/ Call_h3_to_center_child
    \/ Call_polyfill
    \/ Call_cell_area
    \/ Call_geo_to_h3_aggregate
    \/ Call_h3_to_parent_aggregate
    \/ Call_k_ring_smoothing
    \/ Call_polyfill_resample
    \/ Return

Spec == Init /\ [][Next]_vars

\* Chained calls on a cell-keyed table: h3_to_parent, an accessor on what it
\* returned, h3_get_resolution.
NextChain ==
    \/ Call_h3_to_parent
    \/ Call_h3_get_resolution
    \/ Wrap
    \/ Return

SpecChain == Init /\ [][NextChain]_vars

\* ------------------------------------------------------------ the claims
IdentifierOps ==
    {"h3_to_geo", "h3_to_geo_boundary", "h3_get_resolution", "h3_get_base_cell",
     "cell_area", "k_ring", "hex_ring", "h3_to_parent", "h3_to_center_child",
     "h3_to_parent_aggregate"}

\* The per-row function of the last call.
FuncOfLast ==
    IF last.op = "h3_to_parent_aggregate" THEN Func("h3_to_parent", last.n)
    ELSE Func(last.op, last.n)

InvalidAt(i) == ~h3_h3_is_valid(df.rows[i].key)
RejectedAt(i) == ~Call(FuncOfLast, df.rows[i].key).ok
HasInvalidKey == \E i \in 1..Len(df.rows) : InvalidAt(i)
FirstInvalid ==
    CHOOSE i \in 1..Len(df.rows) :
        InvalidAt(i) /\ \A j \in 1..(i - 1) : ~InvalidAt(j)
FirstRejected ==
    CHOOSE i \in 1..Len(df.rows) :
        RejectedAt(i) /\ \A j \in 1..(i - 1) : ~RejectedAt(j)

\* C1 as stated: an identifier-consuming call on a table with an invalid key
\* ends in the invalid-identifier error of the first invalid key.
C1_FirstInvalidKeyReported ==
    (last.op \in IdentifierOps /\ HasInvalidKey) =>
        /\ result.status = "raised"
        /\ result.exc = "H3CellError"
        /\ result.key = df.rows[FirstInvalid].key

\* C1 amended: an identifier-consuming call on a table with an invalid key
\* raises and returns no table; the error is the one of the first key, in
\* row order, that the per-row function rejects.  That is the first invalid
\* key and its invalid-identifier error unless the function rejects a valid
\* key before it.
C1_FirstRejectedKeyReported ==
    (last.op \in IdentifierOps /\ HasInvalidKey) =>
        /\ result.status = "raised"
        /\ result.key = df.rows[FirstRejected].key
        /\ result.exc = Call(FuncOfLast, df.rows[FirstRejected].key).exc
        /\ FirstRejected <= FirstInvalid
        /\ (\A j \in 1..(FirstInvalid - 1) : ~RejectedAt(j)) =>
              /\ result.key = df.rows[FirstInvalid].key
              /\ result.exc = "H3CellError"

\* C1 witness: a valid key followed by two different invalid keys, an
\* exploding k_ring: the call raised for the first of the two.
C1_Witness ==
    /\ last.op = "k_ring"
    /\ last.flag
    /\ Len(df.rows) = 3
    /\ ~InvalidAt(1) /\ InvalidAt(2) /\ InvalidAt(3)
    /\ df.rows[2].key # df.rows[3].key
    /\ result.status = "raised"
    /\ result.key = df.rows[2].key

\* C2: h3_is_valid never raises; it returns the table's rows, each with a
\* column h3_is_valid that is True exactly when the row's key is a cell.
C2_IsValidNeverRaises ==
    (last.op = "h3_is_valid") =>
        /\ result.status = "returned"
        /\ Len(result.table.rows) = Len(df.rows)
        /\ \A i \in 1..Len(df.rows) :
              /\ result.table.rows[i] =
                    SetCol(df.rows[i], "h3_is_valid",
                           h3_h3_is_valid(df.rows[i].key))
              /\ result.table.rows[i].h3_is_valid \in BOOLEAN

\* C2 witness: h3_is_valid returned on a table with valid and invalid keys.
C2_Witness ==
    /\ last.op = "h3_is_valid"
    /\ result.status = "returned"
    /\ \E i, j \in 1..Len(result.table.rows) :
          /\ result.table.rows[i].h3_is_valid = TRUE
          /\ result.table.rows[j].h3_is_valid = FALSE

RingColumn == IF last.op = "k_ring" THEN "h3_k_ring" ELSE "h3_hex_ring"

UniqueKeys ==
    \A i, j \in 1..Len(df.rows) : df.rows[i].key = df.rows[j].key => i = j

\* The list the per-row function of the last call returns for row i.
ListAt(i) == Call(FuncOfLast, df.rows[i].key).v

\* Row i of the table once per element of list, the element in column.
Exploded(i, list, column) ==
    [j \in 1..Len(list) |-> SetCol(df.rows[i], column, list[j])]

\* C3: k_ring / hex_ring with explode=True on unique valid keys: the output
\* is, input row by input row, that row once per element of its list, in
\* the list's order, the other columns unchanged.
C3_ExplodeReplicatesRows ==
    (/\ last.op \in {"k_ring", "hex_ring"}
     /\ last.flag
     /\ UniqueKeys
     /\ \A i \in 1..Len(df.rows) : ~RejectedAt(i)) =>
        /\ result.status = "returned"
        /\ result.table.rows =
              Flatten([i \in 1..Len(df.rows) |-> Exploded(i, ListAt(i), RingColumn)])
        /\ Len(result.table.rows) =
              SumSeq([i \in 1..Len(df.rows) |-> Len(ListAt(i))])

\* C3 witness: an exploding k_ring returned on three rows whose lists have
\* different lengths.
C3_Witness ==
    /\ last.op = "k_ring"
    /\ last.flag
    /\ UniqueKeys
    /\ Len(df.rows) = 3
    /\ result.status = "returned"
    /\ \E i, j \in 1..3 : Len(ListAt(i)) # Len(ListAt(j))
    /\ Len(result.table.rows) > 3

RECURSIVE SumValAt(_)
SumValAt(S) ==
    IF S = {} THEN 0
    ELSE LET i == CHOOSE x \in S : TRUE
         IN  df.rows[i].val + SumValAt(S \ {i})

\* C4: h3_to_parent_aggregate(resolution, 'sum', return_geometry=False) on
\* valid keys that have a parent at the resolution: one row per distinct
\* parent, keyed by it, val the sum over exactly the rows of that parent.
C4_ParentAggregateSums ==
    (/\ last.op = "h3_to_parent_aggregate"
     /\ last.operation = "sum"
     /\ ~last.flag
     /\ \A i \in 1..Len(df.rows) :
           ~InvalidAt(i) /\ Res(df.rows[i].key) >= last.n) =>
        LET ParentAt(i) == h3_h3_to_parent(df.rows[i].key, last.n).v
            parents == {ParentAt(i) : i \in 1..Len(df.rows)}
        IN  /\ result.status = "returned"
            /\ Len(result.table.rows) = Cardinality(parents)
            /\ {result.table.rows[j].key : j \in 1..Len(result.table.rows)} = parents
            /\ \A j \in 1..Len(result.table.rows) :
                  /\ DOMAIN result.table.rows[j] = {"key", "val"}
                  /\ result.table.rows[j].val =
                        SumValAt({i \in 1..Len(df.rows) :
                                     ParentAt(i) = result.table.rows[j].key})

\* C4 witness: three rows, two of one parent and one of another, summed
\* into two rows.
C4_Witness ==
    /\ last.op = "h3_to_parent_aggregate"
    /\ last.operation = "sum"
    /\ ~last.flag
    /\ Len(df.rows) = 3
    /\ result.status = "returned"
    /\ Len(result.table.rows) = 2
    /\ \E j \in 1..2 : result.table.rows[j].val \notin {1, 2, 4}

\* C5: geo_to_h3_aggregate(resolution, operation, return_geometry=False)
\* gives the groups and values of geo_to_h3(resolution, set_index=False)
\* with the lat, lng and geometry columns dropped, grouped by the
\* h3_<resolution> column and reduced with the operation.
C5_AggregateIsManualGrouping ==
    (last.op = "geo_to_h3_aggregate" /\ ~last.flag) =>
        LET g == geo_to_h3(df, last.n, "lat", "lng", FALSE).out
            col == _format_resolution(last.n)
        IN  IF g.status = "raised" THEN result.status = "raised"
            ELSE LET rows == g.table.rows
                     cells == {rows[i][col] : i \in 1..Len(rows)}
                     kept == TableColumns(g.table) \ {"lat", "lng", "geometry", col}
                     Values(c, x) ==
                         LET grp == SelectSeq(rows, LAMBDA row : row[col] = c)
                         IN  [i \in 1..Len(grp) |-> grp[i][x]]
                     ManualRow(c) ==
                         [x \in kept \cup {"key"} |->
                             IF x = "key" THEN c
                             ELSE Reduce(last.operation, Values(c, x))]
                 IN  /\ result.status = "returned"
                     /\ Len(result.table.rows) = Cardinality(cells)
                     /\ {result.table.rows[j] : j \in 1..Len(result.table.rows)}
                            = {ManualRow(c) : c \in cells}

\* C5 witness: three points, two in one cell, aggregated into two groups.
C5_Witness ==
    /\ last.op = "geo_to_h3_aggregate"
    /\ ~last.flag
    /\ Len(df.rows) = 3
    /\ result.status = "returned"
    /\ Len(result.table.rows) = 2

\* The column h3_to_parent(r) writes.
ParentColumn(r) == IF Truthy(r) THEN _format_resolution(r) ELSE "h3_parent"

ChainedResolution ==
    /\ origin.op = "h3_to_parent"
    /\ origin.n # None
    /\ last.op = "h3_get_resolution"

\* C6 as stated: h3_to_parent(r), then h3_get_resolution() on what it
\* returned: h3_resolution is r in every row.
C6_ResolutionIsR ==
    ChainedResolution =>
        /\ result.status = "returned"
        /\ \A j \in 1..Len(result.table.rows) :
              result.table.rows[j].h3_resolution = origin.n

\* C6 amended: h3_to_parent(r), then h3_get_resolution() on what it
\* returned: h3_resolution is the resolution of the row's own key, which
\* h3_to_parent left in place (r or finer); it is the cell in the parent
\* column that has resolution r.
C6_ResolutionIsOfRowKey ==
    ChainedResolution =>
        /\ result.status = "returned"
        /\ Len(result.table.rows) = Len(df.rows)
        /\ \A j \in 1..Len(df.rows) :
              /\ result.table.rows[j] =
                    SetCol(df.rows[j], "h3_resolution", Res(df.rows[j].key))
              /\ Res(df.rows[j][ParentColumn(origin.n)]) = origin.n
              /\ result.table.rows[j].h3_resolution >= origin.n

\* C6 witness: h3_to_parent(1), then h3_get_resolution() returned a row
\* whose h3_resolution is not 1.
C6_Witness ==
    /\ ChainedResolution
    /\ origin.n = 1
    /\ result.status = "returned"
    /\ \E j \in 1..Len(result.table.rows) :
          result.table.rows[j].h3_resolution # origin.n

\* C7: no call changes the table the accessor wraps, whether it returns or
\* raises, and a returned table is never the wrapped table itself.
C7_WrappedTableUnchanged ==
    [][/\ df' = df
       /\ result'.status = "returned" => ~result'.alias]_vars

\* C7 witness: a call on a three-row table returned a table other than the
\* wrapped one.
C7_Witness ==
    /\ last.op = "k_ring"
    /\ result.status = "returned"
    /\ Len(df.rows) = 3
    /\ result.table # df

ExplodeColumn == IF last.op = "polyfill" THEN "h3_polyfill" ELSE RingColumn

\* The list the exploding call computed for row i.
ExplodeListAt(i) ==
    IF last.op = "polyfill" THEN util_polyfill(df.rows[i].geometry, last.n)
    ELSE ListAt(i)

\* The rows of the result that carry row i's val.
RowsOf(i) == SelectSeq(result.table.rows, LAMBDA row : row.val = df.rows[i].val)

ExplodingReturned ==
    /\ last.op \in {"k_ring", "hex_ring", "polyfill"}
    /\ last.flag
    /\ result.status = "returned"

AllKeysValid == \A i \in 1..Len(df.rows) : ~InvalidAt(i)

C10_PolyfillOwnCells ==
    (/\ last.op = "polyfill"
     /\ last.flag
     /\ result.status = "returned"
     /\ \A i \in 1..Len(df.rows) : ExplodeListAt(i) # <<>>) =>
        /\ result.table.rows =
              Flatten([i \in 1..Len(df.rows) |->
                          Exploded(i, ExplodeListAt(i), "h3_polyfill")])
        /\ Len(result.table.rows) =
              SumSeq([i \in 1..Len(df.rows) |-> Len(ExplodeListAt(i))])

====
